---- MODULE Spec2Model ----
(***************************************************************************)
(* The streaming-audio session of useWebSocketAudio                        *)
(* (src/src/websocket-client.tsx, lines 615-874).                          *)
(*                                                                         *)
(* Every handler of the hook runs to completion on the single-threaded     *)
(* event loop, so each handler (a call of the hook's API, a WebSocket      *)
(* event, the continuation of an await, an audio callback) is one action.  *)
(* The environment is the browser: the WebSocket objects created by        *)
(* connect(), the peer that sends messages on them, getUserMedia, the      *)
(* audio decoder, the ScriptProcessorNode and React's re-render.           *)
(***************************************************************************)
EXTENDS Integers, Sequences, FiniteSets

\* Bounds of the model (not program constants).
MaxWs == 2        \* WebSocket objects created by connect()
MaxReady == 1     \* Ready messages received
MaxAudio == 3     \* Audio messages received
MaxOther == 1     \* messages of any other type received
MaxFrames == 2    \* audioprocess callbacks fired
MaxReadySerial == 2  \* Ready messages received, over sessions held one at a time
MaxPcmLen == 2    \* bytes of PCM data passed to encodeWAV

VARIABLES
  ws,               \* the WebSocket objects: readyState, messages put on the wire,
                    \* bufferedAmount (sends discarded), Ready received
  wsRef,            \* wsRef.current: 0 is null
  isConnected,      \* useState(false)
  isMuted,          \* useState(false): the latest state value
  renderedIsMuted,  \* isMuted as captured by the closures of the last render
  isMutedRef,       \* isMutedRef.current
  messages,         \* useState<WebSocketMessage[]>([])
  error,            \* useState("")
  audioContextRef,  \* audioContextRef.current is set
  processorRef,     \* processorRef.current: 0 is null
  streamRef,        \* streamRef.current: 0 is null
  audioQueueRef,    \* audioQueueRef.current
  isPlayingRef,     \* isPlayingRef.current
  inputQueueRef,    \* inputQueueRef.current
  gumPending,       \* startRecording calls suspended at await getUserMedia
  captures,         \* streams/processors created so far (their ids)
  tracks,           \* streams whose tracks are not stopped
  nodes,            \* processors still connected (they fire audioprocess)
  decoding,         \* payloads suspended at await decodeAudioData
  playing,          \* payloads whose source was started and has not ended
  played,           \* history: payload ids in the order of source.start()
  failed,           \* history: payload ids whose decode threw or rejected
  frames,           \* audioprocess callbacks fired so far
  raised,           \* the last handler ended by an uncaught exception
  readySinceRelease, \* history: Ready received since the last disconnect()/onclose
  codec             \* the last call of a codec function: its arguments and result

vars == <<ws, wsRef, isConnected, isMuted, renderedIsMuted, isMutedRef, messages,
          error, audioContextRef, processorRef, streamRef, audioQueueRef,
          isPlayingRef, inputQueueRef, gumPending, captures, tracks, nodes,
          decoding, playing, played, failed, frames, raised, readySinceRelease,
          codec>>

WsIds == 1..MaxWs

\* WebSocketMessageType members used on the wire.
AUDIO_CONFIG_START == "websocket_audio_config_start"
AUDIO == "websocket_audio"
READY == "websocket_ready"
STOP == "websocket_stop"
TRANSCRIPT == "websocket_transcript"
JSON_TRANSCRIPT == "websocket_json_transcript"
BASE == "websocket_base"

\* A type string that is no member of WebSocketMessageType: onmessage handles
\* it in its final else branch.
UNKNOWN == "unknown"

LINEAR16 == "linear16"

\* Defaults of the hook's configuration.
chunkSize == 2048
channelCount == 1

\* Float32Array.BYTES_PER_ELEMENT
Float32BytesPerElement == 4

\* new Uint8Array(inputBuffer.data.buffer).length: the frame is the
\* Float32Array copy of one channel, chunkSize samples, seen as bytes.
ByteLength == chunkSize * Float32BytesPerElement

\* A message put on the wire: its type; for AudioConfigStart the encoding and
\* chunk size input_audio_config announces; for Audio the frame it carries
\* and the number of bytes its data encodes.
Wire(type, frame) ==
  [type |-> type, frame |-> frame,
   audio_encoding |-> IF type = AUDIO_CONFIG_START THEN LINEAR16 ELSE "",
   chunk_size |-> IF type = AUDIO_CONFIG_START THEN chunkSize ELSE 0,
   byteLength |-> IF type = AUDIO THEN ByteLength ELSE 0]

NewWebSocket == [rs |-> "NONE", sent |-> <<>>, bufferedAmount |-> 0, ready |-> FALSE]

Init ==
  /\ ws = [t \in WsIds |-> NewWebSocket]
  /\ wsRef = 0
  /\ isConnected = FALSE
  /\ isMuted = FALSE
  /\ renderedIsMuted = FALSE
  /\ isMutedRef = FALSE
  /\ messages = <<>>
  /\ error = ""
  /\ audioContextRef = FALSE
  /\ processorRef = 0
  /\ streamRef = 0
  /\ audioQueueRef = <<>>
  /\ isPlayingRef = FALSE
  /\ inputQueueRef = <<>>
  /\ gumPending = 0
  /\ captures = 0
  /\ tracks = {}
  /\ nodes = {}
  /\ decoding = {}
  /\ playing = {}
  /\ played = <<>>
  /\ failed = {}
  /\ frames = 0
  /\ raised = FALSE
  /\ readySinceRelease = FALSE
  /\ codec = [fn |-> "none"]

----------------------------------------------------------------------------
\* WebSocket.send(): throws InvalidStateError while CONNECTING, transmits while
\* OPEN, and otherwise discards the data, only growing bufferedAmount.
SendThrows(sock) == sock.rs = "CONNECTING"

WsSend(sock, msg) ==
  IF sock.rs = "OPEN"
    THEN [sock EXCEPT !.sent = Append(@, msg)]
    ELSE [sock EXCEPT !.bufferedAmount = @ + 1]

\* A close() that is never called: the socket stays as it is.
WsCloseSkipped(sock) == sock

\* WebSocket.close(): OPEN (or CONNECTING) becomes CLOSING; no effect otherwise.
WsClose(sock) ==
  IF sock.rs \in {"CONNECTING", "OPEN"} THEN [sock EXCEPT !.rs = "CLOSING"] ELSE sock

----------------------------------------------------------------------------
\* Playback queue

\* The flag as playNextInQueue would leave it without that assignment.
InFlightFlagLost == FALSE

\* isPlayingRef.current = true
InFlightFlag == TRUE

\* audioQueueRef.current.pop(): the newest entry instead of the oldest.
ShiftBack(q) == [item |-> q[Len(q)], rest |-> SubSeq(q, 1, Len(q) - 1)]

\* audioQueueRef.current.shift()
Shift(q) == [item |-> Head(q), rest |-> Tail(q)]

\* The synchronous part of playNextInQueue, up to its await or its return:
\* the queue and flag it leaves, the payload it suspended on decodeAudioData
\* (started), and the payloads whose atob threw and were passed over in the
\* catch block's recursive call (thrown).
RECURSIVE PlayNextInQueue(_, _)

\* A catch block that only logs: the flag stays set and nothing is started.
CatchBlockHalts(q) ==
  [queue |-> q, isPlaying |-> TRUE, started |-> {}, thrown |-> {}, ran |-> TRUE]

\* The catch block of playNextInQueue, entered with queue q left:
\* isPlayingRef.current = false; await playNextInQueue().
CatchBlock(q) == PlayNextInQueue(q, FALSE)

PlayNextInQueue(q, flag) ==
  IF Len(q) = 0 \/ flag
    THEN [queue |-> q, isPlaying |-> flag, started |-> {}, thrown |-> {}, ran |-> FALSE]
    ELSE LET s == Shift(q) IN
      IF s.item.ok
        THEN [queue |-> s.rest, isPlaying |-> InFlightFlag, started |-> {s.item.id},
              thrown |-> {}, ran |-> TRUE]
        ELSE LET r == CatchBlock(s.rest) IN
          [r EXCEPT !.thrown = @ \cup {s.item.id}, !.ran = TRUE]

\* What a handler that does not call playNextInQueue leaves of the playback state.
NoPlayNext(q) ==
  [queue |-> q, isPlaying |-> isPlayingRef, started |-> {}, thrown |-> {}, ran |-> FALSE]

\* The playback state after a handler: r is the result of its playNextInQueue
\* call, dec and pl the payloads still in decodeAudioData and still sounding.
Playback(r, dec, pl, fl) ==
  /\ audioQueueRef' = r.queue
  /\ isPlayingRef' = r.isPlaying
  /\ decoding' = dec \cup r.started
  /\ playing' = pl
  /\ failed' = fl \cup r.thrown
  /\ audioContextRef' = (audioContextRef \/ r.ran)

\* queueAudio(audioData) that only pushes and never starts the worker.
QueueAudioIdle(audioData) == NoPlayNext(Append(audioQueueRef, audioData))

\* queueAudio(audioData)
QueueAudio(audioData) ==
  LET q == Append(audioQueueRef, audioData) IN
  IF ~isPlayingRef THEN PlayNextInQueue(q, isPlayingRef) ELSE NoPlayNext(q)

\* source.start() after decodeAudioData resolved for payload a.
DecodeResolve(a) ==
  /\ a \in decoding
  /\ decoding' = decoding \ {a}
  /\ playing' = playing \cup {a}
  /\ played' = Append(played, a)
  /\ raised' = FALSE
  /\ UNCHANGED <<ws, wsRef, isConnected, isMuted, renderedIsMuted, isMutedRef,
                 messages, error, audioContextRef, processorRef, streamRef,
                 audioQueueRef, isPlayingRef, inputQueueRef, gumPending, captures,
                 tracks, nodes, failed, frames, readySinceRelease>>
  /\ UNCHANGED codec

\* decodeAudioData rejected for payload a: the catch block.
DecodeReject(a) ==
  /\ a \in decoding
  /\ Playback(CatchBlock(audioQueueRef), decoding \ {a}, playing,
              failed \cup {a})
  /\ raised' = FALSE
  /\ UNCHANGED <<ws, wsRef, isConnected, isMuted, renderedIsMuted, isMutedRef,
                 messages, error, processorRef, streamRef, inputQueueRef,
                 gumPending, captures, tracks, nodes, played, frames,
                 readySinceRelease>>
  /\ UNCHANGED codec

\* An onended handler that resets the flag and does not call playNextInQueue.
OnEndedIdle(q) ==
  [queue |-> q, isPlaying |-> FALSE, started |-> {}, thrown |-> {}, ran |-> FALSE]

\* source.onended: isPlayingRef.current = false; await playNextInQueue().
OnEndedHandler(q) == PlayNextInQueue(q, FALSE)

\* source.onended for payload a.
OnEnded(a) ==
  /\ a \in playing
  /\ Playback(OnEndedHandler(audioQueueRef), decoding, playing \ {a}, failed)
  /\ raised' = FALSE
  /\ UNCHANGED <<ws, wsRef, isConnected, isMuted, renderedIsMuted, isMutedRef,
                 messages, error, processorRef, streamRef, inputQueueRef,
                 gumPending, captures, tracks, nodes, played, frames,
                 readySinceRelease>>
  /\ UNCHANGED codec

----------------------------------------------------------------------------
\* Capture pipeline

\* A capture pipeline that never sees the session muted.
CaptureMutedIgnored == FALSE

\* The mute flag as the capture pipeline reads it: isMutedRef.current.
CaptureMuted == isMutedRef

\* processInputQueue() returning at once, as with a processing flag left set.
ProcessInputQueueSkipped(q, socks) == [queue |-> q, socks |-> socks]

\* processInputQueue() without the readyState test: every entry is passed to
\* send() on the current socket.
RECURSIVE ProcessInputQueueUnguarded(_, _)
ProcessInputQueueUnguarded(q, socks) ==
  IF Len(q) > 0 /\ ~CaptureMuted
    THEN ProcessInputQueueUnguarded(Tail(q),
      IF wsRef # 0
        THEN [socks EXCEPT ![wsRef] = WsSend(@, Wire(AUDIO, Head(q)))]
        ELSE socks)
    ELSE [queue |-> q, socks |-> socks]

\* processInputQueue(): the queue and the sockets after draining queue q.
RECURSIVE ProcessInputQueue(_, _)
ProcessInputQueue(q, socks) ==
  IF Len(q) > 0 /\ ~CaptureMuted
    THEN LET inputBuffer == Head(q) IN
      ProcessInputQueue(Tail(q),
        IF wsRef # 0 /\ socks[wsRef].rs = "OPEN"
          THEN [socks EXCEPT ![wsRef] = WsSend(@, Wire(AUDIO, inputBuffer))]
          ELSE socks)
    ELSE [queue |-> q, socks |-> socks]

\* processor.onaudioprocess of a connected processor.
OnAudioProcess ==
  /\ nodes # {}
  /\ frames < MaxFrames
  /\ frames' = frames + 1
  /\ IF ~CaptureMuted
       THEN LET r == ProcessInputQueue(Append(inputQueueRef, frames + 1), ws) IN
         /\ inputQueueRef' = r.queue
         /\ ws' = r.socks
       ELSE UNCHANGED <<inputQueueRef, ws>>
  /\ raised' = FALSE
  /\ UNCHANGED <<wsRef, isConnected, isMuted, renderedIsMuted, isMutedRef, messages,
                 error, audioContextRef, processorRef, streamRef, audioQueueRef,
                 isPlayingRef, gumPending, captures, tracks, nodes, decoding,
                 playing, played, failed, readySinceRelease>>
  /\ UNCHANGED codec

\* startRecording() resumed after getUserMedia resolved.
GetUserMediaResolve ==
  /\ gumPending > 0
  /\ gumPending' = gumPending - 1
  /\ captures' = captures + 1
  /\ streamRef' = captures + 1
  /\ tracks' = tracks \cup {captures + 1}
  /\ audioContextRef' = TRUE
  /\ nodes' = nodes \cup {captures + 1}
  /\ processorRef' = captures + 1
  /\ isMuted' = FALSE
  /\ isMutedRef' = FALSE
  /\ raised' = FALSE
  /\ UNCHANGED <<ws, wsRef, isConnected, renderedIsMuted, messages, error,
                 audioQueueRef, isPlayingRef, inputQueueRef, decoding, playing,
                 played, failed, frames, readySinceRelease>>
  /\ UNCHANGED codec

\* startRecording() resumed after getUserMedia rejected: the catch block.
GetUserMediaReject ==
  /\ gumPending > 0
  /\ gumPending' = gumPending - 1
  /\ error' = "Failed to start recording"
  /\ raised' = FALSE
  /\ UNCHANGED <<ws, wsRef, isConnected, isMuted, renderedIsMuted, isMutedRef,
                 messages, audioContextRef, processorRef, streamRef, audioQueueRef,
                 isPlayingRef, inputQueueRef, captures, tracks, nodes, decoding,
                 playing, played, failed, frames, readySinceRelease>>
  /\ UNCHANGED codec

\* stopRecording()
StopRecording ==
  /\ nodes' = nodes \ {processorRef}
  /\ processorRef' = 0
  /\ tracks' = tracks \ {streamRef}
  /\ streamRef' = 0
  /\ inputQueueRef' = <<>>
  /\ isMuted' = TRUE
  /\ isMutedRef' = TRUE

----------------------------------------------------------------------------
\* Session

\* connect(profileId)
Connect ==
  /\ \E t \in WsIds :
       /\ ws[t].rs = "NONE"
       /\ \A u \in WsIds : u < t => ws[u].rs # "NONE"
       /\ ws' = [ws EXCEPT ![t].rs = "CONNECTING"]
       /\ wsRef' = t
  /\ raised' = FALSE
  /\ UNCHANGED <<isConnected, isMuted, renderedIsMuted, isMutedRef, messages, error,
                 audioContextRef, processorRef, streamRef, audioQueueRef,
                 isPlayingRef, inputQueueRef, gumPending, captures, tracks, nodes,
                 decoding, playing, played, failed, frames, readySinceRelease>>
  /\ UNCHANGED codec

\* connect(profileId) when new WebSocket(...) throws: the catch block.
ConnectThrows ==
  /\ error' = "Failed to connect to WebSocket server"
  /\ raised' = FALSE
  /\ UNCHANGED <<ws, wsRef, isConnected, isMuted, renderedIsMuted, isMutedRef,
                 messages, audioContextRef, processorRef, streamRef, audioQueueRef,
                 isPlayingRef, inputQueueRef, gumPending, captures, tracks, nodes,
                 decoding, playing, played, failed, frames, readySinceRelease>>
  /\ UNCHANGED codec

\* An onopen handler that sends nothing.
OnOpenSendsNothing(sock) == sock

\* ws.send(JSON.stringify(configMessage)) in ws.onopen.
OnOpenSend(sock) == WsSend(sock, Wire(AUDIO_CONFIG_START, 0))

\* ws.onopen of socket t: the connection is established.
OnOpen(t) ==
  /\ ws[t].rs = "CONNECTING"
  /\ isConnected' = TRUE
  /\ error' = ""
  /\ ws' = [ws EXCEPT ![t] = OnOpenSend([@ EXCEPT !.rs = "OPEN"])]
  /\ raised' = FALSE
  /\ UNCHANGED <<wsRef, isMuted, renderedIsMuted, isMutedRef, messages,
                 audioContextRef, processorRef, streamRef, audioQueueRef,
                 isPlayingRef, inputQueueRef, gumPending, captures, tracks, nodes,
                 decoding, playing, played, failed, frames, readySinceRelease>>
  /\ UNCHANGED codec

\* The peer starts the closing handshake of socket t: the browser sets
\* readyState to CLOSING; no handler of the hook runs until the close event.
OnClosing(t) ==
  /\ ws[t].rs = "OPEN"
  /\ ws' = [ws EXCEPT ![t].rs = "CLOSING"]
  /\ UNCHANGED <<wsRef, isConnected, isMuted, renderedIsMuted, isMutedRef, messages,
                 error, audioContextRef, processorRef, streamRef, audioQueueRef,
                 isPlayingRef, inputQueueRef, gumPending, captures, tracks, nodes,
                 decoding, playing, played, failed, frames, raised,
                 readySinceRelease>>
  /\ UNCHANGED codec

\* The messages of the given types received so far.
Received(types) == Cardinality({i \in 1..Len(messages) : messages[i].type \in types})

OtherTypes == {TRANSCRIPT, JSON_TRANSCRIPT, BASE, UNKNOWN}

\* The messages the peer may send next that JSON.parse accepts. An Audio
\* message carries the next payload; ok is whether atob accepts its data. A
\* JsonTranscript message is ok when it has a transcript; the others always.
Inbound ==
  (IF Received({READY}) < MaxReady
     THEN {[type |-> READY, id |-> 0, ok |-> TRUE]} ELSE {})
  \cup (IF Received({AUDIO}) < MaxAudio
     THEN {[type |-> AUDIO, id |-> Received({AUDIO}) + 1, ok |-> b] : b \in BOOLEAN}
     ELSE {})
  \cup (IF Received(OtherTypes) < MaxOther
     THEN {[type |-> ty, id |-> 0, ok |-> TRUE] : ty \in OtherTypes}
            \cup {[type |-> JSON_TRANSCRIPT, id |-> 0, ok |-> FALSE]}
     ELSE {})

\* A socket delivers events until it is closed.
Delivers(t) == ws[t].rs \in {"OPEN", "CLOSING"}

\* setMessages((prev) => message placed first): the list in reverse order.
PrependMessage(prev, message) == <<message>> \o prev

\* setMessages((prev) => [...prev, message])
AppendMessage(prev, message) == Append(prev, message)

\* message.transcript.entries of a JsonTranscript without a transcript throws
\* inside the try block, after setMessages.
HandlerThrows(message) == message.type = JSON_TRANSCRIPT /\ ~message.ok

\* ws.onmessage of socket t with a message that parses.
OnMessage(t, message) ==
  /\ Delivers(t)
  /\ messages' = AppendMessage(messages, message)
  /\ error' = IF HandlerThrows(message) THEN "Failed to parse WebSocket message"
                                         ELSE error
  /\ IF message.type = READY
       THEN /\ gumPending' = gumPending + 1
            /\ ws' = [ws EXCEPT ![t].ready = TRUE]
            /\ readySinceRelease' = TRUE
            /\ UNCHANGED <<audioQueueRef, isPlayingRef, decoding, playing, failed,
                           audioContextRef>>
       ELSE IF message.type = AUDIO
         THEN /\ Playback(QueueAudio([id |-> message.id, ok |-> message.ok]),
                          decoding, playing, failed)
              /\ UNCHANGED <<gumPending, ws, readySinceRelease>>
         ELSE UNCHANGED <<gumPending, ws, readySinceRelease, audioQueueRef,
                          isPlayingRef, decoding, playing, failed, audioContextRef>>
  /\ raised' = FALSE
  /\ UNCHANGED <<wsRef, isConnected, isMuted, renderedIsMuted, isMutedRef,
                 processorRef, streamRef, inputQueueRef, captures, tracks, nodes,
                 played, frames>>
  /\ UNCHANGED codec

\* ws.onmessage of socket t when JSON.parse throws: the catch block.
OnMessageMalformed(t) ==
  /\ Delivers(t)
  /\ error' = "Failed to parse WebSocket message"
  /\ raised' = FALSE
  /\ UNCHANGED <<ws, wsRef, isConnected, isMuted, renderedIsMuted, isMutedRef,
                 messages, audioContextRef, processorRef, streamRef, audioQueueRef,
                 isPlayingRef, inputQueueRef, gumPending, captures, tracks, nodes,
                 decoding, playing, played, failed, frames, readySinceRelease>>
  /\ UNCHANGED codec

\* ws.onclose of socket t: the connection is closed (by the peer, or the
\* closing handshake that close() began has finished).
OnClose(t) ==
  /\ Delivers(t)
  /\ ws' = [ws EXCEPT ![t].rs = "CLOSED"]
  /\ isConnected' = FALSE
  /\ StopRecording
  /\ readySinceRelease' = FALSE
  /\ raised' = FALSE
  /\ UNCHANGED <<wsRef, renderedIsMuted, messages, error, audioContextRef,
                 audioQueueRef, isPlayingRef, gumPending, captures, decoding,
                 playing, played, failed, frames>>
  /\ UNCHANGED codec

\* The connection of socket t fails: ws.onerror, then ws.onclose.
OnError(t) ==
  /\ ws[t].rs \in {"CONNECTING", "OPEN", "CLOSING"}
  /\ ws' = [ws EXCEPT ![t].rs = "CLOSED"]
  /\ error' = "WebSocket error occurred"
  /\ isConnected' = FALSE
  /\ StopRecording
  /\ readySinceRelease' = FALSE
  /\ raised' = FALSE
  /\ UNCHANGED <<wsRef, renderedIsMuted, messages, audioContextRef, audioQueueRef,
                 isPlayingRef, gumPending, captures, decoding, playing, played,
                 failed, frames>>
  /\ UNCHANGED codec

\* disconnect() when wsRef.current.send throws: nothing after it runs.
DisconnectThrows ==
  /\ wsRef # 0
  /\ SendThrows(ws[wsRef])
  /\ raised' = TRUE
  /\ UNCHANGED <<ws, wsRef, isConnected, isMuted, renderedIsMuted, isMutedRef,
                 messages, error, audioContextRef, processorRef, streamRef,
                 audioQueueRef, isPlayingRef, inputQueueRef, gumPending, captures,
                 tracks, nodes, decoding, playing, played, failed, frames,
                 readySinceRelease>>
  /\ UNCHANGED codec

\* disconnect() run to its end.
DisconnectReturns ==
  /\ wsRef # 0 => ~SendThrows(ws[wsRef])
  /\ IF wsRef # 0
       THEN /\ ws' = [ws EXCEPT ![wsRef] = WsClose(WsSend(@, Wire(STOP, 0)))]
            /\ wsRef' = 0
       ELSE UNCHANGED <<ws, wsRef>>
  /\ StopRecording
  /\ isConnected' = FALSE
  /\ readySinceRelease' = FALSE
  /\ raised' = FALSE
  /\ UNCHANGED <<renderedIsMuted, messages, error, audioContextRef, audioQueueRef,
                 isPlayingRef, gumPending, captures, decoding, playing, played,
                 failed, frames>>
  /\ UNCHANGED codec

\* disconnect()
Disconnect == DisconnectThrows \/ DisconnectReturns

\* const newMutedState = !isMuted, with isMuted as the last render saw it.
NewMutedState == ~renderedIsMuted

\* toggleMute(), as defined by the last render.
ToggleMute ==
  /\ isMuted' = NewMutedState
  /\ isMutedRef' = NewMutedState
  /\ raised' = FALSE
  /\ UNCHANGED <<ws, wsRef, isConnected, renderedIsMuted, messages, error,
                 audioContextRef, processorRef, streamRef, audioQueueRef,
                 isPlayingRef, inputQueueRef, gumPending, captures, tracks, nodes,
                 decoding, playing, played, failed, frames, readySinceRelease>>
  /\ UNCHANGED codec

\* React re-renders the component: the closures see the latest isMuted.
Render ==
  /\ renderedIsMuted # isMuted
  /\ renderedIsMuted' = isMuted
  /\ UNCHANGED <<ws, wsRef, isConnected, isMuted, isMutedRef, messages, error,
                 audioContextRef, processorRef, streamRef, audioQueueRef,
                 isPlayingRef, inputQueueRef, gumPending, captures, tracks, nodes,
                 decoding, playing, played, failed, frames, raised,
                 readySinceRelease>>
  /\ UNCHANGED codec

\* Every handler of the hook against every event of its environment.
Next ==
  \/ Connect
  \/ ConnectThrows
  \/ \E t \in WsIds : OnOpen(t)
  \/ \E t \in WsIds : \E message \in Inbound : OnMessage(t, message)
  \/ \E t \in WsIds : OnMessageMalformed(t)
  \/ \E t \in WsIds : OnClosing(t)
  \/ \E t \in WsIds : OnClose(t)
  \/ \E t \in WsIds : OnError(t)
  \/ Disconnect
  \/ ToggleMute
  \/ Render
  \/ GetUserMediaResolve
  \/ GetUserMediaReject
  \/ OnAudioProcess
  \/ \E a \in decoding : DecodeResolve(a)
  \/ \E a \in decoding : DecodeReject(a)
  \/ \E a \in playing : OnEnded(a)

Spec == Init /\ [][Next]_vars

(***************************************************************************)
(* Two projections of Next.  The transport and capture state (ws, wsRef,   *)
(* the mute flags, the capture pipeline) is read and written only by the   *)
(* handlers of SessionNext; of the inbound messages only Ready touches it. *)
(* The playback state (audioQueueRef, isPlayingRef, decoding, playing) is  *)
(* read and written only by the handlers of PlaybackNext; of the inbound   *)
(* messages only Audio touches it, and a socket's life decides when one    *)
(* can arrive.  Each projection keeps every interleaving of the handlers   *)
(* that touch its part of the state.                                       *)
(***************************************************************************)
ReadyInbound == {m \in Inbound : m.type = READY}

AudioInbound == {m \in Inbound : m.type = AUDIO}

SessionNext ==
  \/ Connect
  \/ \E t \in WsIds : OnOpen(t)
  \/ \E t \in WsIds : \E message \in ReadyInbound : OnMessage(t, message)
  \/ \E t \in WsIds : OnClose(t)
  \/ \E t \in WsIds : OnError(t)
  \/ Disconnect
  \/ ToggleMute
  \/ Render
  \/ GetUserMediaResolve
  \/ GetUserMediaReject
  \/ OnAudioProcess

SpecSession == Init /\ [][SessionNext]_vars

PlaybackNext ==
  \/ Connect
  \/ \E t \in WsIds : OnOpen(t)
  \/ \E t \in WsIds : \E message \in AudioInbound : OnMessage(t, message)
  \/ \E t \in WsIds : OnClose(t)
  \/ \E t \in WsIds : OnError(t)
  \/ Disconnect
  \/ \E a \in decoding : DecodeResolve(a)
  \/ \E a \in decoding : DecodeReject(a)
  \/ \E a \in playing : OnEnded(a)

SpecPlayback == Init /\ [][PlaybackNext]_vars

\* The browser settles every decodeAudioData promise and fires ended for
\* every source that was started.
SpecPlaybackFair ==
  /\ SpecPlayback
  /\ WF_vars(\E a \in decoding : DecodeResolve(a) \/ DecodeReject(a))
  /\ WF_vars(\E a \in playing : OnEnded(a))

(***************************************************************************)
(* The inbound side alone: what onmessage does with Ready, with each kind  *)
(* of message it only forwards, and with data that does not parse, over    *)
(* the life of the sockets.  Audio messages, and the continuations that a  *)
(* Ready or an Audio message schedules, are in the two projections above.  *)
(***************************************************************************)
NonAudioInbound == {m \in Inbound : m.type # AUDIO}

InboundNext ==
  \/ Connect
  \/ \E t \in WsIds : OnOpen(t)
  \/ \E t \in WsIds : \E message \in NonAudioInbound : OnMessage(t, message)
  \/ \E t \in WsIds : OnMessageMalformed(t)
  \/ \E t \in WsIds : OnClose(t)
  \/ Disconnect

SpecInbound == Init /\ [][InboundNext]_vars

(***************************************************************************)
(* Sessions held one at a time: connect() is called only when no socket    *)
(* created earlier is still alive.  On each socket the peer may send Ready *)
(* more than once and may start the closing handshake itself.              *)
(***************************************************************************)
ConnectSerial == (\A t \in WsIds : ws[t].rs \in {"NONE", "CLOSED"}) /\ Connect

ReadySerialInbound ==
  IF Received({READY}) < MaxReadySerial
    THEN {[type |-> READY, id |-> 0, ok |-> TRUE]} ELSE {}

SerialNext ==
  \/ ConnectSerial
  \/ \E t \in WsIds : OnOpen(t)
  \/ \E t \in WsIds : \E message \in ReadySerialInbound : OnMessage(t, message)
  \/ \E t \in WsIds : OnClosing(t)
  \/ \E t \in WsIds : OnClose(t)
  \/ \E t \in WsIds : OnError(t)
  \/ Disconnect
  \/ ToggleMute
  \/ Render
  \/ GetUserMediaResolve
  \/ GetUserMediaReject
  \/ OnAudioProcess

SpecSerial == Init /\ [][SerialNext]_vars

----------------------------------------------------------------------------
\* The state of the hook, which the codec functions neither read nor write.
hookVars == <<ws, wsRef, isConnected, isMuted, renderedIsMuted, isMutedRef, messages,
              error, audioContextRef, processorRef, streamRef, audioQueueRef,
              isPlayingRef, inputQueueRef, gumPending, captures, tracks, nodes,
              decoding, playing, played, failed, frames, raised, readySinceRelease>>

\* WAV container encoder

\* DataView.setUint16(offset, value, false): most significant byte first.
Uint16BE(value) == <<(value \div 256) % 256, value % 256>>

\* DataView.setUint16(offset, value, true): the value modulo 2^16, least
\* significant byte first.
Uint16LE(value) == <<value % 256, (value \div 256) % 256>>

\* DataView.setUint32(offset, value, false): most significant byte first.
Uint32BE(value) ==
  <<(value \div 16777216) % 256, (value \div 65536) % 256, (value \div 256) % 256,
    value % 256>>

\* DataView.setUint32(offset, value, true): the value modulo 2^32, least
\* significant byte first.
Uint32LE(value) ==
  <<value % 256, (value \div 256) % 256, (value \div 65536) % 256,
    (value \div 16777216) % 256>>

\* The char codes writeString stores for the four tags.
RIFF == <<82, 73, 70, 70>>
WAVE == <<87, 65, 86, 69>>
FMT == <<102, 109, 116, 32>>
DATA == <<100, 97, 116, 97>>

\* x / 8 as setUint16 and setUint32 store it: the fraction is dropped.
Eighth(x) == x \div 8

\* encodeWAV(pcmData, sampleRate, numChannels, bitsPerSample): the bytes of
\* the ArrayBuffer returned.
encodeWAV(pcmData, sampleRate, numChannels, bitsPerSample) ==
  LET byteRate == Eighth(sampleRate * numChannels * bitsPerSample)
      blockAlign == Eighth(numChannels * bitsPerSample)
      dataSize == Len(pcmData)
  IN RIFF \o Uint32LE(36 + dataSize) \o WAVE \o FMT \o Uint32LE(16) \o Uint16LE(1)
     \o Uint16LE(numChannels) \o Uint32LE(sampleRate) \o Uint32LE(byteRate)
     \o Uint16LE(blockAlign) \o Uint16LE(bitsPerSample) \o DATA \o Uint32LE(dataSize)
     \o [i \in 1..dataSize |-> pcmData[i] % 256]

\* The byte values and the buffers tried as pcmData.
PcmBytes == {0, 1, 255}

PcmBuffers == UNION {[1..n -> PcmBytes] : n \in 0..MaxPcmLen}

\* The (sampleRate, numChannels, bitsPerSample) tried: the formats the hook
\* can be configured with, sample sizes that are no multiple of 8, and channel
\* counts and sample sizes wider than their 16-bit header field.
WavParams ==
  ({8000, 48000} \X {1, 2} \X {8, 12, 16})
    \cup ({1} \X {65537} \X {8, 16})
    \cup ({8000} \X {1} \X {65552})

\* A call of encodeWAV.
EncodeWAVCall(pcmData, sampleRate, numChannels, bitsPerSample) ==
  /\ codec' = [fn |-> "encodeWAV", pcmData |-> pcmData, sampleRate |-> sampleRate,
               numChannels |-> numChannels, bitsPerSample |-> bitsPerSample,
               out |-> encodeWAV(pcmData, sampleRate, numChannels, bitsPerSample)]
  /\ UNCHANGED hookVars

WavNext ==
  \E pcmData \in PcmBuffers : \E p \in WavParams :
    EncodeWAVCall(pcmData, p[1], p[2], p[3])

SpecWav == Init /\ [][WavNext]_vars

\* Mu-law encoder (src/unnamed/part_000)

\* a | b of two non-negative integers.
RECURSIVE BitOr(_, _)
BitOr(a, b) ==
  IF a = 0 THEN b
  ELSE IF b = 0 THEN a
  ELSE (IF a % 2 = 1 \/ b % 2 = 1 THEN 1 ELSE 0) + 2 * BitOr(a \div 2, b \div 2)

\* Math.floor(Math.log(x) / Math.log(2)) of a positive integer.
RECURSIVE FloorLog2(_)
FloorLog2(x) == IF x <= 1 THEN 0 ELSE 1 + FloorLog2(x \div 2)

\* const sign = (pcm & 0x8000) >> 8
MulawSign(pcm) == ((pcm % 65536) \div 32768) * 128

\* pcm after negation, clipping at 32635 and adding the bias 0x84.
MulawBiased(pcm) ==
  LET magnitude == IF MulawSign(pcm) # 0 THEN -pcm ELSE pcm
      clipped == IF magnitude > 32635 THEN 32635 ELSE magnitude
  IN clipped + 132

\* const exponent = Math.floor(Math.log(pcm) / Math.log(2))
MulawExponent(pcm) == FloorLog2(MulawBiased(pcm))

\* const mantissa = (pcm >> (exponent - 3)) & 0x0f
MulawMantissa(pcm) == (MulawBiased(pcm) \div 2 ^ (MulawExponent(pcm) - 3)) % 16

\* encodeMulaw(pcm): ~x of a 32-bit integer x is -x - 1.
encodeMulaw(pcm) ==
  -BitOr(BitOr(MulawSign(pcm), MulawExponent(pcm) * 16), MulawMantissa(pcm)) - 1

\* The samples tried: around every power of two, of both signs, within the
\* 16-bit range that Math.floor(inputData[i] * 32768) yields.
PcmSamples ==
  {x \in {sg * (2 ^ k + d) : sg \in {-1, 1}, k \in 0..15, d \in {-1, 0, 1, 100}} :
     x \in -32768..32767}

\* A call of encodeMulaw.
EncodeMulawCall(pcm) ==
  /\ codec' = [fn |-> "encodeMulaw", pcm |-> pcm, out |-> encodeMulaw(pcm)]
  /\ UNCHANGED hookVars

MulawNext == \E pcm \in PcmSamples : EncodeMulawCall(pcm)

SpecMulaw == Init /\ [][MulawNext]_vars

----------------------------------------------------------------------------
\* Properties of the playback queue

InFlight == decoding \cup playing

\* C1: at most one received audio payload is in flight (suspended in
\* decodeAudioData or sounding) at any time, whatever the interleaving of
\* queueAudio calls, decode completions and failures and ended callbacks.
C1_SingleFlight == Cardinality(InFlight) <= 1 /\ decoding \cap playing = {}

\* A payload is in flight while a later one waits in the queue.
C1_Witness == Cardinality(InFlight) = 1 /\ Len(audioQueueRef) >= 1

Range(f) == {f[i] : i \in DOMAIN f}

Increasing(f) == \A i, j \in DOMAIN f : i < j => f[i] < f[j]

QueuedIds == [i \in DOMAIN audioQueueRef |-> audioQueueRef[i].id]

\* C2: payloads start playing in the order they were received: the play-start
\* log is strictly increasing in arrival number (none twice, none out of
\* order), the queue holds the payloads that arrived after every popped one,
\* in arrival order, and every payload received is either still queued, in
\* decodeAudioData, started, or failed, and only one of these.
C2_PlaybackOrder ==
  /\ Increasing(played)
  /\ Increasing(QueuedIds)
  /\ \A a \in Range(QueuedIds) : \A b \in decoding \cup Range(played) \cup failed : b < a
  /\ Range(QueuedIds) \cup decoding \cup Range(played) \cup failed
       = 1..Received({AUDIO})
  /\ Range(QueuedIds) \cap (decoding \cup Range(played) \cup failed) = {}
  /\ decoding \cap (Range(played) \cup failed) = {}
  /\ Range(played) \cap failed = {}
  /\ playing \subseteq Range(played)

\* Three payloads have started, in the order they arrived.
C2_Witness == played = <<1, 2, 3>>

----------------------------------------------------------------------------
\* Properties of the session

SentTypes(sock) == [i \in DOMAIN sock.sent |-> sock.sent[i].type]

\* C3: on every socket the first message put on the wire is AudioConfigStart,
\* and it is sent as the socket opens: no Audio or Stop precedes it.
C3_ConfigFirst ==
  \A t \in WsIds :
    /\ ws[t].rs = "OPEN" => Len(ws[t].sent) >= 1
    /\ Len(ws[t].sent) >= 1 => ws[t].sent[1].type = AUDIO_CONFIG_START
    /\ \A i \in DOMAIN ws[t].sent : i > 1 => ws[t].sent[i].type # AUDIO_CONFIG_START

\* A socket has carried the handshake, a capture frame and Stop.
C3_Witness ==
  \E t \in WsIds :
    /\ Len(ws[t].sent) >= 3
    /\ \E i \in DOMAIN ws[t].sent : ws[t].sent[i].type = AUDIO
    /\ ws[t].sent[Len(ws[t].sent)].type = STOP

AudioFrames(sock) == {sock.sent[i].frame : i \in {j \in DOMAIN sock.sent : sock.sent[j].type = AUDIO}}

\* C4: no capture frame is transmitted as an Audio message on a socket before
\* a Ready message has been received on that same socket.
C4_NoAudioBeforeReady == \A t \in WsIds : AudioFrames(ws[t]) # {} => ws[t].ready

\* The Audio messages on the wire, per socket.
AudioSent(socks) == [t \in WsIds |-> SelectSeq(socks[t].sent, LAMBDA m : m.type = AUDIO)]

\* C5: a handler that starts with the session muted (isMutedRef true) sends
\* no Audio message, on any socket.
C5_MutedSendsNoAudio == [][isMutedRef => AudioSent(ws') = AudioSent(ws)]_vars

\* A frame was produced and dropped while the user had muted an open,
\* streaming session: the only socket ever created is open, the processor
\* is live, and the frames produced so far left no Audio on the wire.
C5_Witness ==
  /\ isMutedRef
  /\ nodes # {}
  /\ frames >= 1
  /\ wsRef # 0 /\ ws[wsRef].rs = "OPEN"
  /\ \A t \in WsIds : t # wsRef => ws[t].rs = "NONE"
  /\ \A t \in WsIds : AudioFrames(ws[t]) = {}

\* The session is streaming: the current socket is open and capture runs.
Streaming == wsRef # 0 /\ ws[wsRef].rs = "OPEN" /\ processorRef # 0

\* C6: a toggleMute() that unmutes a streaming session sends nothing, asks for
\* no new handshake and leaves the session streaming; and a capture frame
\* produced in an unmuted streaming session is transmitted as the next Audio
\* message on the current socket, nothing else being sent.
C6_UnmuteResumes ==
  [][/\ (ToggleMute /\ Streaming /\ isMutedRef /\ ~isMutedRef')
          => (ws' = ws /\ wsRef' = wsRef /\ Streaming' /\ gumPending' = gumPending)
     /\ (OnAudioProcess /\ Streaming /\ ~isMutedRef)
          => ws' = [ws EXCEPT ![wsRef].sent = Append(@, Wire(AUDIO, frames + 1))]]_vars

\* A frame was dropped while muted and the next one, after toggleMute()
\* unmuted, is on the wire of the same socket: one socket, one Ready, frame 2
\* sent and frame 1 not.
C6_Witness ==
  /\ wsRef # 0 /\ ws[wsRef].rs = "OPEN"
  /\ \A t \in WsIds : t # wsRef => ws[t].rs = "NONE"
  /\ Received({READY}) = 1 /\ captures = 1 /\ processorRef = 1
  /\ AudioFrames(ws[wsRef]) = {2}
  /\ SentTypes(ws[wsRef]) = <<AUDIO_CONFIG_START, AUDIO>>

\* C7: every toggleMute() flips the mute flag the capture pipeline reads: in
\* every state the value the call writes is the negation of isMutedRef.
C7_ToggleFlips == NewMutedState = ~isMutedRef

\* C8: after disconnect() or a socket's close event the microphone stream and
\* the processor are released, and stay so until another Ready is received.
C8_ReleasedUntilReady == ~readySinceRelease => (streamRef = 0 /\ processorRef = 0)

\* C9: disconnect() clears the playback queue: when it returns no entry is
\* pending and none is in flight.
C9_DisconnectClearsPlayback ==
  [][DisconnectReturns =>
       (audioQueueRef' = <<>> /\ decoding' = {} /\ playing' = {} /\ ~isPlayingRef')]_vars

\* C10: disconnect() sends Stop exactly when the current socket is open, before
\* closing it; when it is not open no send is attempted: nothing is put on the
\* wire, nothing is buffered and nothing is raised.
C10_StopIffOpen ==
  [][Disconnect =>
       IF wsRef # 0 /\ ws[wsRef].rs = "OPEN"
         THEN /\ ws'[wsRef].sent = Append(ws[wsRef].sent, Wire(STOP, 0))
              /\ ws'[wsRef].rs = "CLOSING"
         ELSE /\ \A t \in WsIds :
                   /\ ws'[t].sent = ws[t].sent
                   /\ ws'[t].bufferedAmount = ws[t].bufferedAmount
              /\ ~raised']_vars

----------------------------------------------------------------------------
\* Properties of error handling

\* C11: disconnect() completes without raising in every state, leaves the
\* microphone released and the socket it held neither connecting nor open, and
\* holds no socket afterwards; called with no socket held it sends nothing and
\* closes nothing.
C11_DisconnectSafe ==
  [][Disconnect =>
       /\ ~raised'
       /\ streamRef' = 0 /\ processorRef' = 0 /\ tracks' = {} /\ nodes' = {}
       /\ wsRef' = 0
       /\ wsRef # 0 => ws'[wsRef].rs \in {"CLOSING", "CLOSED"}
       /\ wsRef = 0 => ws' = ws]_vars

\* C12: when the current socket fails or closes without disconnect() having
\* been called, capture is stopped, the playback queue is cleared and nothing
\* stays in flight, the session is disconnected and the error value is set.
C12_FailureCleansUp ==
  [][\A t \in WsIds :
       (t = wsRef /\ ws[t].rs \in {"CONNECTING", "OPEN"} /\ (OnClose(t) \/ OnError(t))) =>
         /\ processorRef' = 0 /\ streamRef' = 0
         /\ audioQueueRef' = <<>> /\ decoding' = {} /\ playing' = {}
         /\ ~isConnected' /\ ws'[t].rs = "CLOSED"
         /\ error' # ""]_vars

\* C13: an inbound message that does not parse, or whose type is not one the
\* client knows, is reported (the error value is set) and dropped: the handler
\* raises nothing and changes neither the capture pipeline, the playback queue
\* nor the transport.
C13_BadMessageReported ==
  [][\A t \in WsIds :
       (OnMessageMalformed(t)
          \/ \E m \in Inbound : m.type = UNKNOWN /\ OnMessage(t, m)) =>
         /\ error' # ""
         /\ ~raised'
         /\ UNCHANGED <<processorRef, streamRef, tracks, nodes, gumPending,
                        inputQueueRef, isMutedRef>>
         /\ UNCHANGED <<audioQueueRef, isPlayingRef, decoding, playing>>
         /\ UNCHANGED <<ws, wsRef, isConnected>>]_vars

\* C14: a failed entry never halts the playback queue: the in-flight flag is
\* set exactly while a payload is in decodeAudioData or sounding, so it is
\* reset after every failure; entries never wait while nothing is in flight;
\* and a failed entry is neither queued again, decoded again nor played.
C14_FailureAdvances ==
  /\ isPlayingRef <=> InFlight # {}
  /\ audioQueueRef # <<>> => InFlight # {}
  /\ failed \cap (Range(QueuedIds) \cup InFlight \cup Range(played)) = {}

\* Both kinds of failure were passed over: a payload whose decode was rejected
\* and a payload atob refused, and a payload queued behind them has started.
C14_Witness ==
  /\ Len(messages) = 3 /\ messages[1].ok /\ ~messages[2].ok /\ messages[3].ok
  /\ failed = {1, 2}
  /\ played = <<3>>
  /\ playing = {3}

\* C15: while no Ready has been received, an Audio message received is
\* recorded as an error and is neither decoded nor played.
C15_NoPlaybackBeforeReady ==
  (Received({AUDIO}) > 0 /\ \A t \in WsIds : ~ws[t].ready) =>
    (error # "" /\ decoding = {} /\ playing = {} /\ played = <<>>)

\* C16: when getUserMedia fails the session ends: the error is set, the
\* session is disconnected, no socket stays connecting or open, no capture
\* resource is held and no other attempt to start capture is pending.
C16_DeviceFailureFatal ==
  [][GetUserMediaReject =>
       /\ error' # ""
       /\ ~isConnected'
       /\ \A t \in WsIds : ws'[t].rs \notin {"CONNECTING", "OPEN"}
       /\ streamRef' = 0 /\ processorRef' = 0 /\ tracks' = {} /\ nodes' = {}
       /\ gumPending' = 0]_vars

\* C17: the messages list only grows at its end: every handler leaves it as
\* it was or appends one inbound message, and onmessage appends the very
\* message it parsed; no element is changed, moved or removed.
C17_MessagesAppendOnly ==
  [][/\ messages' = messages \/ \E m \in Inbound : messages' = Append(messages, m)
     /\ \A t \in WsIds : \A m \in Inbound :
          OnMessage(t, m) => messages' = Append(messages, m)]_vars

\* A Transcript message and then Ready were received, the first socket is
\* closed and a second one is open: the list holds both, in arrival order.
C17_Witness ==
  /\ Len(messages) = 2
  /\ messages[1].type = TRANSCRIPT /\ messages[2].type = READY
  /\ ws[1].rs = "CLOSED" /\ ws[2].rs = "OPEN" /\ wsRef = 2

----------------------------------------------------------------------------
\* Properties of the capture pipeline

\* C18: every handler that runs stopRecording() leaves no live microphone
\* track and no connected processor, and raises nothing; run when nothing is
\* held (never started, or stopped already) it changes neither.
C18_StopReleases ==
  [][(DisconnectReturns \/ \E t \in WsIds : OnClose(t) \/ OnError(t)) =>
       /\ ~raised'
       /\ streamRef' = 0 /\ processorRef' = 0
       /\ tracks' = {} /\ nodes' = {}
       /\ (streamRef = 0 /\ processorRef = 0) => UNCHANGED <<tracks, nodes>>]_vars

\* C19: at most one microphone stream is live and at most one processor is
\* connected, and they are the ones streamRef and processorRef hold, so that
\* stopRecording() releases them.
C19_SinglePipeline ==
  /\ Cardinality(tracks) <= 1 /\ Cardinality(nodes) <= 1
  /\ tracks \subseteq {streamRef}
  /\ nodes \subseteq {processorRef}

\* The frames carried by the Audio messages on the wire of a socket, in order.
FrameSeq(sock) ==
  LET a == SelectSeq(sock.sent, LAMBDA m : m.type = AUDIO) IN
  [i \in DOMAIN a |-> a[i].frame]

\* On every socket the frames are in production order, none twice, and no
\* frame is on two sockets.
FramesInOrder(socks) ==
  /\ \A t \in WsIds : Increasing(FrameSeq(socks[t]))
  /\ \A t, u \in WsIds : t # u => AudioFrames(socks[t]) \cap AudioFrames(socks[u]) = {}

\* C20 as stated: every frame produced is consumed by the callback that
\* produced it; unmuted, it is put on the wire of the current socket as one
\* Audio message, the next one in production order; muted, nothing is sent.
C20_FramesSentOnce ==
  [][OnAudioProcess =>
       /\ inputQueueRef' = <<>>
       /\ FramesInOrder(ws')
       /\ IF ~isMutedRef
            THEN /\ wsRef # 0
                 /\ ws' = [ws EXCEPT ![wsRef].sent = Append(@, Wire(AUDIO, frames + 1))]
            ELSE ws' = ws]_vars

\* C20 amended: every frame produced is consumed by the callback that produced
\* it; unmuted with the current socket open, it is put on the wire of that
\* socket as one Audio message, the next one in production order; muted, or
\* with no open socket, it is dropped: nothing is sent and nothing buffered.
C20_FramesSentOnceIfOpen ==
  [][OnAudioProcess =>
       /\ inputQueueRef' = <<>>
       /\ FramesInOrder(ws')
       /\ IF ~isMutedRef /\ wsRef # 0 /\ ws[wsRef].rs = "OPEN"
            THEN ws' = [ws EXCEPT ![wsRef].sent = Append(@, Wire(AUDIO, frames + 1))]
            ELSE ws' = ws]_vars

\* Frame 1 went out on the open socket; the peer then started the closing
\* handshake and frame 2, produced unmuted, was dropped.
C20_Witness ==
  /\ frames = 2 /\ nodes # {} /\ ~isMutedRef
  /\ wsRef # 0 /\ ws[wsRef].rs = "CLOSING"
  /\ FrameSeq(ws[wsRef]) = <<1>>
  /\ ws[wsRef].bufferedAmount = 0

----------------------------------------------------------------------------
\* Properties of the audio encoding

\* C21: every Audio message on the wire carries 16-bit samples, as the
\* AudioConfigStart sent first on its socket announced: two bytes for each of
\* the chunk_size samples of each channel.
C21_Linear16Frames ==
  \A t \in WsIds : \A i \in DOMAIN ws[t].sent :
    (ws[t].sent[i].type = AUDIO /\ ws[t].sent[1].audio_encoding = LINEAR16) =>
      ws[t].sent[i].byteLength = (16 \div 8) * ws[t].sent[1].chunk_size * channelCount

----------------------------------------------------------------------------
\* Properties of the WAV container encoder

\* The 16-bit and 32-bit little-endian values at a 0-based offset of a buffer.
U16At(buffer, offset) == buffer[offset + 1] + 256 * buffer[offset + 2]

U32At(buffer, offset) ==
  buffer[offset + 1] + 256 * buffer[offset + 2] + 65536 * buffer[offset + 3]
    + 16777216 * buffer[offset + 4]

WavCall == codec.fn = "encodeWAV"

\* What every header has whatever the format: the length, the four tags, the
\* sizes, the PCM format tag, and the input bytes after the header.
WavFrame(out, pcmData) ==
  /\ Len(out) = 44 + Len(pcmData)
  /\ SubSeq(out, 1, 4) = RIFF /\ SubSeq(out, 9, 12) = WAVE
  /\ SubSeq(out, 13, 16) = FMT /\ SubSeq(out, 37, 40) = DATA
  /\ U32At(out, 4) = 36 + Len(pcmData)
  /\ U32At(out, 16) = 16
  /\ U16At(out, 20) = 1
  /\ U32At(out, 40) = Len(pcmData)
  /\ SubSeq(out, 45, 44 + Len(pcmData)) = pcmData

\* C22 as stated: the output is 44+n bytes whose header fields are exactly
\* numChannels, sampleRate, sampleRate*numChannels*bitsPerSample/8,
\* numChannels*bitsPerSample/8 and bitsPerSample, followed by the input.
C22_WavHeader ==
  WavCall =>
    /\ WavFrame(codec.out, codec.pcmData)
    /\ U16At(codec.out, 22) = codec.numChannels
    /\ U32At(codec.out, 24) = codec.sampleRate
    /\ 8 * U32At(codec.out, 28) = codec.sampleRate * codec.numChannels * codec.bitsPerSample
    /\ 8 * U16At(codec.out, 32) = codec.numChannels * codec.bitsPerSample
    /\ U16At(codec.out, 34) = codec.bitsPerSample

\* The values of a call are whole numbers that fit their header fields.
WavFits ==
  /\ codec.numChannels \in 0..65535
  /\ codec.bitsPerSample \in 0..65535
  /\ (codec.numChannels * codec.bitsPerSample) % 8 = 0
  /\ (codec.sampleRate * codec.numChannels * codec.bitsPerSample) % 8 = 0
  /\ (codec.numChannels * codec.bitsPerSample) \div 8 \in 0..65535

\* C22 amended: the output is 44+n bytes, the input after a 44-byte header
\* whose fields hold each value with its fraction dropped and reduced modulo
\* the width of the field; they are exactly the values of the claim when
\* these are whole numbers that fit.
C22_WavHeaderStored ==
  WavCall =>
    /\ WavFrame(codec.out, codec.pcmData)
    /\ U16At(codec.out, 22) = codec.numChannels % 65536
    /\ U32At(codec.out, 24) = codec.sampleRate
    /\ U32At(codec.out, 28)
         = (codec.sampleRate * codec.numChannels * codec.bitsPerSample) \div 8
    /\ U16At(codec.out, 32) = ((codec.numChannels * codec.bitsPerSample) \div 8) % 65536
    /\ U16At(codec.out, 34) = codec.bitsPerSample % 65536
    /\ WavFits =>
         /\ U16At(codec.out, 22) = codec.numChannels
         /\ 8 * U32At(codec.out, 28)
              = codec.sampleRate * codec.numChannels * codec.bitsPerSample
         /\ 8 * U16At(codec.out, 32) = codec.numChannels * codec.bitsPerSample
         /\ U16At(codec.out, 34) = codec.bitsPerSample

\* The call playNextInQueue makes: two bytes of 16-bit mono audio at 48 kHz.
C22_Witness ==
  /\ WavCall /\ WavFits
  /\ codec.sampleRate = 48000 /\ codec.numChannels = 1 /\ codec.bitsPerSample = 16
  /\ codec.pcmData = <<1, 255>>

\* The parameters and the payload read back from a buffer.
ReadWav(buffer) ==
  [sampleRate |-> U32At(buffer, 24), numChannels |-> U16At(buffer, 22),
   bitsPerSample |-> U16At(buffer, 34),
   pcmData |-> SubSeq(buffer, 45, 44 + U32At(buffer, 40))]

WavInputs ==
  [sampleRate |-> codec.sampleRate, numChannels |-> codec.numChannels,
   bitsPerSample |-> codec.bitsPerSample, pcmData |-> codec.pcmData]

\* C23 as stated: what is read back from the output of any call is what was
\* passed in.
C23_WavRoundTrip == WavCall => ReadWav(codec.out) = WavInputs

\* The three parameters fit their header fields.
WavInRange == codec.numChannels \in 0..65535 /\ codec.bitsPerSample \in 0..65535

\* C23 amended: when numChannels and bitsPerSample are below 2^16 (and
\* sampleRate below 2^32) what is read back is what was passed in, and no
\* other input in that range gives the same output.
C23_WavRoundTripInRange ==
  (WavCall /\ WavInRange) =>
    /\ ReadWav(codec.out) = WavInputs
    /\ \A pcmData \in PcmBuffers : \A p \in WavParams :
         (p[2] \in 0..65535 /\ p[3] \in 0..65535
            /\ encodeWAV(pcmData, p[1], p[2], p[3]) = codec.out) =>
           (pcmData = codec.pcmData /\ p = <<codec.sampleRate, codec.numChannels,
                                              codec.bitsPerSample>>)

\* Stereo 12-bit audio at 8 kHz was encoded and reads back as passed.
C23_Witness ==
  /\ WavCall /\ WavInRange
  /\ codec.sampleRate = 8000 /\ codec.numChannels = 2 /\ codec.bitsPerSample = 12
  /\ codec.pcmData = <<255, 0>>
  /\ ReadWav(codec.out) = WavInputs

----------------------------------------------------------------------------
\* Properties of the mu-law encoder

\* C24: for every 16-bit sample encodeMulaw returns a byte, its exponent field
\* takes three bits, and the top bit of the inverted byte tells the sign of
\* the sample.
C24_MulawByte ==
  codec.fn = "encodeMulaw" =>
    /\ codec.out \in 0..255
    /\ MulawExponent(codec.pcm) \in 0..7
    /\ ((255 - (codec.out % 256)) \div 128 = 1) <=> (codec.pcm < 0)

----------------------------------------------------------------------------
\* Properties of the session's transports and of the playback worker

\* C25: at most one socket created by the hook is connecting or open.
C25_SingleTransport ==
  Cardinality({t \in WsIds : ws[t].rs \in {"CONNECTING", "OPEN"}}) <= 1

\* C26: between handlers, an idle worker (isPlayingRef false) has an empty
\* queue, and isPlayingRef is true exactly when one popped entry is being
\* decoded or played.
C26_WorkerInvariant ==
  /\ ~isPlayingRef => audioQueueRef = <<>>
  /\ isPlayingRef <=> Cardinality(decoding) + Cardinality(playing) = 1

\* Two entries wait in the queue while the first one is being decoded.
C26_Witness == isPlayingRef /\ decoding = {1} /\ Len(audioQueueRef) = 2

\* C27: if every decode settles and every started source ends, every payload
\* queued or being decoded is eventually started or abandoned as failed, and
\* in the end the queue stays empty with the worker idle.
C27_PlaybackDrains ==
  /\ \A a \in 1..MaxAudio :
       (a \in Range(QueuedIds) \cup decoding) ~> (a \in Range(played) \cup failed)
  /\ <>[](audioQueueRef = <<>> /\ ~isPlayingRef)

\* Every payload received was started or abandoned, some of each, and the
\* worker is idle with an empty queue.
C27_Witness ==
  /\ Received({AUDIO}) = MaxAudio
  /\ Range(played) \cup failed = 1..MaxAudio
  /\ played # <<>> /\ failed # {}
  /\ audioQueueRef = <<>> /\ ~isPlayingRef /\ InFlight = {}

\* C28: only toggleMute() unmutes: every step that takes isMutedRef from true
\* to false is a toggleMute() call.
C28_OnlyToggleUnmutes == [][(isMutedRef /\ ~isMutedRef') => ToggleMute]_vars

\* C29: on every socket Stop is the last message on the wire and is sent
\* once; the socket that carried it is closing or closed and is no longer the
\* one the hook sends on.
C29_StopIsLast ==
  \A t \in WsIds : \A i \in DOMAIN ws[t].sent :
    ws[t].sent[i].type = STOP =>
      /\ i = Len(ws[t].sent)
      /\ ws[t].rs \in {"CLOSING", "CLOSED"}
      /\ wsRef # t

\* Capture started after disconnect() had sent Stop, and a frame produced
\* unmuted since then went nowhere: the socket's wire ends with Stop.
C29_Witness ==
  /\ wsRef = 0 /\ nodes # {} /\ ~isMutedRef /\ frames >= 1
  /\ SentTypes(ws[1]) = <<AUDIO_CONFIG_START, STOP>>
  /\ \A t \in WsIds : t # 1 => ws[t].rs = "NONE"

\* C30: an open, message, error or close event of a socket that is not the
\* current one changes neither isConnected, the mute flag, the capture
\* pipeline nor the playback queue.
C30_StaleEventsIgnored ==
  [][\A t \in WsIds :
       (t # wsRef /\ (OnOpen(t) \/ OnClose(t) \/ OnError(t)
                        \/ \E m \in Inbound : OnMessage(t, m))) =>
         UNCHANGED <<isConnected, isMuted, isMutedRef, processorRef, streamRef,
                     tracks, nodes, gumPending, audioQueueRef, decoding>>]_vars

====
